---------------------------- MODULE Spec2Model ----------------------------
(***************************************************************************)
(* Model of Firmware/MotorControl/utils.cpp: the space-vector modulator    *)
(* SVM, the arctangent approximation fast_atan2 and the deadline helper    *)
(* deadline_to_timeout, and the microsecond clock micros.                  *)
(*                                                                         *)
(* SVM, fast_atan2 and deadline_to_timeout are pure.  A behaviour of Spec  *)
(* is one call: Init draws which function is called and its arguments, and *)
(* the function's action runs its body and stores what it returns.         *)
(* micros reads two hardware registers that change while it runs: a        *)
(* behaviour of SpecMicros interleaves its three reads with the counting   *)
(* of the time base.                                                       *)
(*                                                                         *)
(* Arithmetic.  SVM's arithmetic is carried out exactly in the field       *)
(* Q(sqrt 3), so that the constants 1/sqrt(3) and 2/sqrt(3) and the        *)
(* sextant boundary rays are exact values.  fast_atan2's arithmetic is     *)
(* IEEE-754 binary32 with round-to-nearest-even, one rounding per          *)
(* operation.  deadline_to_timeout's is unsigned 32-bit, kept as two       *)
(* 16-bit halves.                                                          *)
(***************************************************************************)
EXTENDS Integers, Sequences, FiniteSets, TLC

VARIABLES pc,
          alpha, beta, Sextant, tA, tB, tC, result_valid,   \* SVM
          t_x, t_y,                                         \* SVM: the on-times of the case
          y, x, r,                                          \* fast_atan2
          deadline_ms, now_ms, timeout_ms,                  \* deadline_to_timeout
          uwTick, CNT,                                      \* the time base
          ms, cycle_cnt, micros_ret,                        \* micros
          tick_at_cnt, retried, elapse                      \* history, timing

svmVars == <<alpha, beta, Sextant, t_x, t_y, tA, tB, tC, result_valid>>

atanVars == <<y, x, r>>

deadlineVars == <<deadline_ms, now_ms, timeout_ms>>

hwVars == <<uwTick, CNT>>

microsVars == <<ms, cycle_cnt, micros_ret, tick_at_cnt, retried, elapse>>

vars == <<pc, svmVars, atanVars, deadlineVars, hwVars, microsVars>>

\* The value of a variable that no statement has assigned yet.
Unset == <<>>

\* The value of a register of micros that has not been written yet; it is
\* no value of a tick or of the counter.
Unread == -1

\* micros is not running and the time base is not observed.
MicrosIdle ==
    /\ uwTick = 0 /\ CNT = 0
    /\ ms = Unread /\ cycle_cnt = Unread /\ micros_ret = Unread
    /\ tick_at_cnt = Unread /\ retried = FALSE /\ elapse = 0

---------------------------------------------------------------------------
(***************************************************************************)
(* Exact arithmetic in Q(sqrt 3).  <<p, q, d>> is (p + q*sqrt(3)) / d,     *)
(* d > 0, in lowest terms, so two values are equal iff the tuples are.     *)
(***************************************************************************)

Abs(n) == IF n < 0 THEN -n ELSE n

Min2(a, b) == IF a < b THEN a ELSE b

Max2(a, b) == IF a > b THEN a ELSE b

RECURSIVE Gcd(_, _)
Gcd(a, b) == IF b = 0 THEN a ELSE Gcd(b, a % b)

Norm(p, q, d) ==
    LET g == Gcd(Gcd(Abs(p), Abs(q)), d)
    IN  <<p \div g, q \div g, d \div g>>

RAdd(a, b) == Norm(a[1] * b[3] + b[1] * a[3], a[2] * b[3] + b[2] * a[3], a[3] * b[3])

RNeg(a) == <<-a[1], -a[2], a[3]>>

RSub(a, b) == RAdd(a, RNeg(b))

RMul(a, b) == Norm(a[1] * b[1] + 3 * a[2] * b[2], a[1] * b[2] + a[2] * b[1], a[3] * b[3])

\* The sign of p + q*sqrt(3): -1, 0 or 1.
RSign(a) ==
    LET p == a[1]
        q == a[2]
    IN  IF p = 0 /\ q = 0 THEN 0
        ELSE IF p >= 0 /\ q >= 0 THEN 1
        ELSE IF p <= 0 /\ q <= 0 THEN -1
        ELSE IF p > 0 THEN (IF p * p > 3 * q * q THEN 1 ELSE -1)
        ELSE (IF 3 * q * q > p * p THEN 1 ELSE -1)

RGt(a, b) == RSign(RSub(a, b)) = 1

RGe(a, b) == RSign(RSub(a, b)) >= 0

RLe(a, b) == RSign(RSub(a, b)) <= 0

\* The literals 0.0f, 1.0f and 0.5f.
RZero == <<0, 0, 1>>

ROne == <<1, 0, 1>>

RHalf == <<1, 0, 2>>

\* 1/sqrt(3) = sqrt(3)/3 and 2/sqrt(3) = 2*sqrt(3)/3 (declared in utils.hpp).
one_by_sqrt3 == <<0, 1, 3>>

two_by_sqrt3 == <<0, 2, 3>>

---------------------------------------------------------------------------
(***************************************************************************)
(* SVM                                                                     *)
(***************************************************************************)

\* Quadrant I tested with >= instead of >.
SextantOf_tie(a, b) ==
    IF RGe(b, RZero)
    THEN IF RGe(a, RZero)
         THEN IF RGe(RMul(one_by_sqrt3, b), a) THEN 2 ELSE 1
         ELSE IF RGt(RMul(RNeg(one_by_sqrt3), b), a) THEN 3 ELSE 2
    ELSE IF RGe(a, RZero)
         THEN IF RGt(RMul(RNeg(one_by_sqrt3), b), a) THEN 5 ELSE 6
         ELSE IF RGt(RMul(one_by_sqrt3, b), a) THEN 4 ELSE 5

\* Quadrant IV with the two sextants exchanged.
SextantOf_swapped(a, b) ==
    IF RGe(b, RZero)
    THEN IF RGe(a, RZero)
         THEN IF RGt(RMul(one_by_sqrt3, b), a) THEN 2 ELSE 1
         ELSE IF RGt(RMul(RNeg(one_by_sqrt3), b), a) THEN 3 ELSE 2
    ELSE IF RGe(a, RZero)
         THEN IF RGt(RMul(RNeg(one_by_sqrt3), b), a) THEN 6 ELSE 5
         ELSE IF RGt(RMul(one_by_sqrt3, b), a) THEN 4 ELSE 5

\* The sextant classification (the nested if of SVM).
SextantOf(a, b) ==
    IF RGe(b, RZero)
    THEN IF RGe(a, RZero)
         THEN IF RGt(RMul(one_by_sqrt3, b), a) THEN 2 ELSE 1
         ELSE IF RGt(RMul(RNeg(one_by_sqrt3), b), a) THEN 3 ELSE 2
    ELSE IF RGe(a, RZero)
         THEN IF RGt(RMul(RNeg(one_by_sqrt3), b), a) THEN 5 ELSE 6
         ELSE IF RGt(RMul(one_by_sqrt3, b), a) THEN 4 ELSE 5

\* Sextant 1 with t1 = alpha - two_by_sqrt3 * beta.
OnTimes_case1(s, a, b) ==
    CASE s = 1 -> <<RSub(a, RMul(two_by_sqrt3, b)), RMul(two_by_sqrt3, b)>>
      [] s = 2 -> <<RAdd(a, RMul(one_by_sqrt3, b)), RAdd(RNeg(a), RMul(one_by_sqrt3, b))>>
      [] s = 3 -> <<RMul(two_by_sqrt3, b), RSub(RNeg(a), RMul(one_by_sqrt3, b))>>
      [] s = 4 -> <<RAdd(RNeg(a), RMul(one_by_sqrt3, b)), RMul(RNeg(two_by_sqrt3), b)>>
      [] s = 5 -> <<RSub(RNeg(a), RMul(one_by_sqrt3, b)), RSub(a, RMul(one_by_sqrt3, b))>>
      [] s = 6 -> <<RMul(RNeg(two_by_sqrt3), b), RAdd(a, RMul(one_by_sqrt3, b))>>

\* Sextant 2 with t3 = -alpha + two_by_sqrt3 * beta.
OnTimes_case2(s, a, b) ==
    CASE s = 1 -> <<RSub(a, RMul(one_by_sqrt3, b)), RMul(two_by_sqrt3, b)>>
      [] s = 2 -> <<RAdd(a, RMul(one_by_sqrt3, b)), RAdd(RNeg(a), RMul(two_by_sqrt3, b))>>
      [] s = 3 -> <<RMul(two_by_sqrt3, b), RSub(RNeg(a), RMul(one_by_sqrt3, b))>>
      [] s = 4 -> <<RAdd(RNeg(a), RMul(one_by_sqrt3, b)), RMul(RNeg(two_by_sqrt3), b)>>
      [] s = 5 -> <<RSub(RNeg(a), RMul(one_by_sqrt3, b)), RSub(a, RMul(one_by_sqrt3, b))>>
      [] s = 6 -> <<RMul(RNeg(two_by_sqrt3), b), RAdd(a, RMul(one_by_sqrt3, b))>>

\* The two vector on-times <<first, second>> of a sextant, in the order the
\* case declares them.
OnTimes(s, a, b) ==
    CASE s = 1 -> <<RSub(a, RMul(one_by_sqrt3, b)), RMul(two_by_sqrt3, b)>>
      [] s = 2 -> <<RAdd(a, RMul(one_by_sqrt3, b)), RAdd(RNeg(a), RMul(one_by_sqrt3, b))>>
      [] s = 3 -> <<RMul(two_by_sqrt3, b), RSub(RNeg(a), RMul(one_by_sqrt3, b))>>
      [] s = 4 -> <<RAdd(RNeg(a), RMul(one_by_sqrt3, b)), RMul(RNeg(two_by_sqrt3), b)>>
      [] s = 5 -> <<RSub(RNeg(a), RMul(one_by_sqrt3, b)), RSub(a, RMul(one_by_sqrt3, b))>>
      [] s = 6 -> <<RMul(RNeg(two_by_sqrt3), b), RAdd(a, RMul(one_by_sqrt3, b))>>

\* Sextant 3 adding t4 before t3: tC = tB + t4, tA = tC + t3.
Timings_case3(s, a, b) ==
    LET t    == OnTimes(s, a, b)
        base == RMul(RSub(RSub(ROne, t[1]), t[2]), RHalf)
    IN  CASE s = 1 -> LET B == RAdd(base, t[1]) IN <<base, B, RAdd(B, t[2])>>
          [] s = 2 -> LET A == RAdd(base, t[2]) IN <<A, base, RAdd(A, t[1])>>
          [] s = 3 -> LET C == RAdd(base, t[2]) IN <<RAdd(C, t[1]), base, C>>
          [] s = 4 -> LET B == RAdd(base, t[2]) IN <<RAdd(B, t[1]), B, base>>
          [] s = 5 -> LET A == RAdd(base, t[1]) IN <<A, RAdd(A, t[2]), base>>
          [] s = 6 -> LET C == RAdd(base, t[2]) IN <<base, RAdd(C, t[1]), C>>

\* The PWM timings <<tA, tB, tC>> of a sextant (the switch of SVM).
Timings(s, a, b) ==
    LET t    == OnTimes(s, a, b)
        base == RMul(RSub(RSub(ROne, t[1]), t[2]), RHalf)
    IN  CASE s = 1 -> LET B == RAdd(base, t[1]) IN <<base, B, RAdd(B, t[2])>>
          [] s = 2 -> LET A == RAdd(base, t[2]) IN <<A, base, RAdd(A, t[1])>>
          [] s = 3 -> LET C == RAdd(base, t[1]) IN <<RAdd(C, t[2]), base, C>>
          [] s = 4 -> LET B == RAdd(base, t[2]) IN <<RAdd(B, t[1]), B, base>>
          [] s = 5 -> LET A == RAdd(base, t[1]) IN <<A, RAdd(A, t[2]), base>>
          [] s = 6 -> LET C == RAdd(base, t[2]) IN <<base, RAdd(C, t[1]), C>>

\* The range test behind result_valid.
InUnit(t) == RGe(t, RZero) /\ RLe(t, ROne)

\* The upper bound tested with < instead of <=.
ResultValid_exclusive(t) ==
    \A i \in 1..3 : RGe(t[i], RZero) /\ ~RGe(t[i], ROne)

ResultValid(t) == InUnit(t[1]) /\ InUnit(t[2]) /\ InUnit(t[3])

\* Grid of arguments: (p + q*sqrt(3)) / GridDen.
MaxP == 4

MaxQ == 2

GridDen == 4

SVMInputs == { Norm(p, q, GridDen) : p \in -MaxP..MaxP, q \in -MaxQ..MaxQ }

InitSVM ==
    /\ pc = "SVM"
    /\ alpha \in SVMInputs
    /\ beta \in SVMInputs
    /\ Sextant = 0 /\ t_x = Unset /\ t_y = Unset
    /\ tA = Unset
    /\ tB = Unset
    /\ tC = Unset
    /\ result_valid = FALSE
    /\ y = Unset /\ x = Unset /\ r = Unset
    /\ deadline_ms = Unset /\ now_ms = Unset /\ timeout_ms = Unset
    /\ MicrosIdle

SVM ==
    /\ pc = "SVM"
    /\ LET s == SextantOf(alpha, beta)
           t == Timings(s, alpha, beta)
           o == OnTimes(s, alpha, beta)
       IN  /\ Sextant' = s
           /\ t_x' = o[1]
           /\ t_y' = o[2]
           /\ tA' = t[1]
           /\ tB' = t[2]
           /\ tC' = t[3]
           /\ result_valid' = ResultValid(t)
    /\ pc' = "SVM_done"
    /\ UNCHANGED <<alpha, beta, atanVars, deadlineVars, hwVars, microsVars>>

---------------------------------------------------------------------------
(***************************************************************************)
(* Properties of SVM                                                       *)
(***************************************************************************)

SVMDone == pc = "SVM_done"

\* 3/4 and sqrt(3)/2.
RThreeQuarters == <<3, 0, 4>>

RSqrt3By2 == <<0, 1, 2>>

RAbs(a) == IF RSign(a) < 0 THEN RNeg(a) ELSE a

\* t lies in [0, 1], bounds included.
Within01(t) == RSign(t) >= 0 /\ RSign(RSub(ROne, t)) >= 0

\* The timings still carry the commanded vector: tC - tB = (2/sqrt 3) * beta
\* and tB + tC - 2 * tA = 2 * alpha.  A clamped or saturated timing breaks it.
CarriesVector ==
    /\ RSub(tC, tB) = RMul(<<0, 2, 3>>, beta)
    /\ RSub(RAdd(tB, tC), RAdd(tA, tA)) = RAdd(alpha, alpha)

\* C1: the validity flag returned by SVM is true iff each of the returned tA,
\* tB, tC lies in [0, 1] (bounds inclusive); the returned values are not
\* clamped: they always carry the commanded vector, so when the flag is false
\* one of them is itself outside [0, 1].
C1_ValidIffInRange ==
    SVMDone =>
        /\ result_valid <=> (Within01(tA) /\ Within01(tB) /\ Within01(tC))
        /\ CarriesVector
        /\ ~result_valid => (~Within01(tA) \/ ~Within01(tB) \/ ~Within01(tC))

\* An invalid result whose out-of-range tC is returned as computed.
C1_Witness ==
    /\ SVMDone
    /\ ~result_valid
    /\ ~Within01(tC)
    /\ CarriesVector

InCircle(a, b) == RLe(RAdd(RMul(a, a), RMul(b, b)), RThreeQuarters)

\* C2: for every (alpha, beta) with alpha^2 + beta^2 <= 3/4, in whichever
\* sextant the classification selects, SVM returns valid == true: each of
\* tA, tB, tC lies in [0, 1].
C2_InCircleValid ==
    (SVMDone /\ InCircle(alpha, beta)) =>
        /\ result_valid
        /\ Within01(tA) /\ Within01(tB) /\ Within01(tC)

\* The circle touches the hexagon: alpha = 3/4, beta = sqrt(3)/4 has
\* alpha^2 + beta^2 = 3/4 and the largest timing is exactly 1.
C2_Witness ==
    /\ SVMDone
    /\ RAdd(RMul(alpha, alpha), RMul(beta, beta)) = RThreeQuarters
    /\ Sextant = 1
    /\ tC = ROne
    /\ result_valid

\* C3: for every input on the alpha axis (beta = 0) whose magnitude is
\* strictly greater than sqrt(3)/2, including alpha = 1, SVM returns
\* valid == false.
C3_AlphaAxisBeyondCircleInvalid ==
    (SVMDone /\ beta = RZero /\ RGt(RAbs(alpha), RSqrt3By2)) => ~result_valid

\* The six unit vectors along the sextant boundary rays, at 0, 60, ..., 300
\* degrees; ray k separates sextant k (sextant 6 for k = 0) from sextant k + 1.
RayDir(k) ==
    CASE k = 0 -> <<ROne, RZero>>
      [] k = 1 -> <<RHalf, RSqrt3By2>>
      [] k = 2 -> <<RNeg(RHalf), RSqrt3By2>>
      [] k = 3 -> <<RNeg(ROne), RZero>>
      [] k = 4 -> <<RNeg(RHalf), RNeg(RSqrt3By2)>>
      [] k = 5 -> <<RHalf, RNeg(RSqrt3By2)>>

Cross(u, v) == RSub(RMul(u[1], v[2]), RMul(u[2], v[1]))

Dot(u, v) == RAdd(RMul(u[1], v[1]), RMul(u[2], v[2]))

\* (a, b) lies on boundary ray k, the origin excluded.
OnRay(k, a, b) ==
    /\ Cross(RayDir(k), <<a, b>>) = RZero
    /\ RSign(Dot(RayDir(k), <<a, b>>)) = 1

\* (a, b) lies in the closed 60-degree wedge of sextant s.
InWedge(s, a, b) ==
    /\ RSign(Cross(RayDir(s - 1), <<a, b>>)) >= 0
    /\ RSign(Cross(<<a, b>>, RayDir(s % 6))) >= 0

SextantBelow(k) == IF k = 0 THEN 6 ELSE k

SextantAbove(k) == k + 1

\* C4: SVM is continuous across sextant seams: at every point on one of the
\* six boundary rays the timings of the sextant on one side equal the timings
\* of the sextant on the other side, and both are what SVM returns.
C4_SeamsAgree ==
    SVMDone =>
        \A k \in 0..5 :
            OnRay(k, alpha, beta) =>
                /\ Timings(SextantBelow(k), alpha, beta) = Timings(SextantAbove(k), alpha, beta)
                /\ <<tA, tB, tC>> = Timings(SextantBelow(k), alpha, beta)
                /\ <<tA, tB, tC>> = Timings(SextantAbove(k), alpha, beta)

\* A point of the 60-degree ray, alpha = beta/sqrt(3) with beta > 0, for which
\* the call returned the timings of sextant 1 and they equal those of sextant 2.
C4_Witness ==
    /\ SVMDone
    /\ OnRay(1, alpha, beta)
    /\ Sextant = 1
    /\ <<tA, tB, tC>> = Timings(2, alpha, beta)
    /\ tA # tC

\* C5: the classification gives every input exactly one sextant in 1..6, the
\* one whose wedge holds the point; an input exactly on a boundary ray goes to
\* the lower-numbered neighbour when beta >= 0 and to the higher-numbered
\* neighbour when beta < 0.
C5_SextantTies ==
    SVMDone =>
        /\ Sextant \in 1..6
        /\ InWedge(Sextant, alpha, beta)
        /\ \A k \in 0..5 :
               OnRay(k, alpha, beta) =>
                   Sextant = IF RSign(beta) >= 0
                             THEN Min2(SextantBelow(k), SextantAbove(k))
                             ELSE Max2(SextantBelow(k), SextantAbove(k))

\* The 60-degree ray in quadrant I goes to sextant 1.
C5_Witness ==
    /\ SVMDone
    /\ OnRay(1, alpha, beta)
    /\ Sextant = 1

BasePhase(s) == IF s \in {1, 6} THEN 1 ELSE IF s \in {2, 3} THEN 2 ELSE 3

TopPhase(s) == IF s \in {1, 2} THEN 3 ELSE IF s \in {3, 4} THEN 1 ELSE 2

---------------------------------------------------------------------------
(***************************************************************************)
(* IEEE-754 binary32.  <<m, e>> is m * 2^e with |m| < 2^24.  A normal      *)
(* number has 2^23 <= |m| and EMin <= e; a subnormal (and zero) has        *)
(* e = EMin.  The form is canonical: equal values are equal tuples.  The   *)
(* sign of zero is not kept: -0.0f and 0.0f compare equal in every test    *)
(* the code makes.  Every operation rounds to nearest, ties to even.       *)
(***************************************************************************)

MantBits == 24

EMin == -149

Pow2(n) == 2 ^ n

RECURSIVE BitLen(_)
BitLen(n) == IF n = 0 THEN 0 ELSE 1 + BitLen(n \div 2)

Sgn(n) == IF n < 0 THEN -1 ELSE 1

FZero == <<0, EMin>>

\* Rounds sgn * (G + f) * 2^e to binary32, where 0 <= f < 1 and f # 0 iff
\* sticky.  G has at least two bits more than the mantissa when sticky.
FRound(sgn, G, sticky, e) ==
    LET n  == BitLen(G)
        t  == Max2(e + n - MantBits, EMin)
        sh == t - e
    IN  IF G = 0 \/ sh > n THEN FZero
        ELSE IF sh <= 0 THEN <<sgn * G * Pow2(-sh), t>>
        ELSE LET q    == G \div Pow2(sh)
                 rem  == G % Pow2(sh)
                 half == Pow2(sh - 1)
                 up   == rem > half \/ (rem = half /\ (sticky \/ q % 2 = 1))
                 m    == IF up THEN q + 1 ELSE q
             IN  IF m = Pow2(MantBits) THEN <<sgn * Pow2(MantBits - 1), t + 1>>
                 ELSE IF m = 0 THEN FZero
                 ELSE <<sgn * m, t>>

\* |a| with the mantissa shifted up to 24 bits (a # 0), exponent unbounded.
FNormal(a) ==
    LET k == MantBits - BitLen(Abs(a[1]))
    IN  <<Abs(a[1]) * Pow2(k), a[2] - k>>

FNeg(a) == <<-a[1], a[2]>>

FAbs(a) == <<Abs(a[1]), a[2]>>

\* a < b.
FLt(a, b) ==
    LET magLt(u, v) == IF u[2] # v[2] THEN u[2] < v[2] ELSE Abs(u[1]) < Abs(v[1])
    IN  IF a[1] < 0 /\ b[1] >= 0 THEN TRUE
        ELSE IF a[1] >= 0 /\ b[1] < 0 THEN FALSE
        ELSE IF a[1] >= 0 THEN magLt(a, b)
        ELSE magLt(b, a)

FGt(a, b) == FLt(b, a)

FLe(a, b) == ~FLt(b, a)

FGe(a, b) == ~FLt(a, b)

\* std::min and std::max.
FMin(a, b) == IF FLt(b, a) THEN b ELSE a

FMax(a, b) == IF FLt(a, b) THEN b ELSE a

\* a + b: the operand of smaller exponent is aligned with three guard bits
\* and a sticky bit.
FAdd(a, b) ==
    IF a[1] = 0 THEN b
    ELSE IF b[1] = 0 THEN a
    ELSE LET u  == IF a[2] >= b[2] THEN a ELSE b
             v  == IF a[2] >= b[2] THEN b ELSE a
             d  == u[2] - v[2]
             A  == Abs(u[1]) * 8
             B  == Abs(v[1]) * 8
             Bq == IF d > 27 THEN 0 ELSE B \div Pow2(d)
             st == IF d > 27 THEN TRUE ELSE B % Pow2(d) # 0
         IN  IF Sgn(u[1]) = Sgn(v[1])
             THEN FRound(Sgn(u[1]), A + Bq, st, u[2] - 3)
             ELSE IF d = 0
                  THEN FRound(Sgn(u[1] + v[1]), Abs(u[1] + v[1]), FALSE, u[2])
                  ELSE FRound(Sgn(u[1]), A - Bq - (IF st THEN 1 ELSE 0), st, u[2] - 3)

FSub(a, b) == FAdd(a, FNeg(b))

\* a * b: the 48-bit product of the mantissas from 12-bit halves.
FMul(a, b) ==
    IF a[1] = 0 \/ b[1] = 0 THEN FZero
    ELSE LET u   == FNormal(a)
             v   == FNormal(b)
             u1  == u[1] \div 4096
             u0  == u[1] % 4096
             v1  == v[1] \div 4096
             v0  == v[1] % 4096
             mid == u1 * v0 + u0 * v1
             low == u0 * v0 + (mid % 4096) * 4096
             lo  == low % Pow2(24)
             hi  == u1 * v1 + mid \div 4096 + low \div Pow2(24)
         IN  FRound(Sgn(a[1]) * Sgn(b[1]), hi * 4 + lo \div Pow2(22),
                    lo % Pow2(22) # 0, u[2] + v[2] + 22)

\* k further quotient bits of rem / d by long division, rem < d.
RECURSIVE DivBits(_, _, _, _)
DivBits(q, rem, d, k) ==
    IF k = 0 THEN <<q, rem>>
    ELSE IF 2 * rem >= d THEN DivBits(2 * q + 1, 2 * rem - d, d, k - 1)
    ELSE DivBits(2 * q, 2 * rem, d, k - 1)

\* a / b, b # 0.
FDiv(a, b) ==
    IF a[1] = 0 THEN FZero
    ELSE LET u  == FNormal(a)
             v  == FNormal(b)
             qr == DivBits(u[1] \div v[1], u[1] % v[1], v[1], 26)
         IN  FRound(Sgn(a[1]) * Sgn(b[1]), qr[1], qr[2] # 0, u[2] - v[2] - 26)

---------------------------------------------------------------------------
(***************************************************************************)
(* fast_atan2                                                              *)
(***************************************************************************)

\* std::numeric_limits<float>::min(), 2^-126.
FLT_MIN == <<8388608, -149>>

\* The float literals of fast_atan2, as the nearest binary32 values.
\*   0.0464964749f = 12481302 * 2^-28     0.15931422f = 10691396 * 2^-26
\*   0.327622764f  = 10993196 * 2^-25     1.57079637f = 13176795 * 2^-23
\*   3.14159274f   = 13176795 * 2^-22
Coef0 == <<-12481302, -28>>

Coef1 == <<10691396, -26>>

Coef2 == <<10993196, -25>>

HalfPi == <<13176795, -23>>

Pi == <<13176795, -22>>

\* a := min(|x|, |y|) / (max(|x|, |y|) + FLT_MIN)
FoldedRatio(abs_y, abs_x) ==
    FDiv(FMin(abs_x, abs_y), FAdd(FMax(abs_x, abs_y), FLT_MIN))

\* r := ((-0.0464964749 * s + 0.15931422) * s - 0.327622764) * s * a + a
AtanPoly(a) ==
    LET s == FMul(a, a)
    IN  FAdd(FMul(FMul(FSub(FMul(FAdd(FMul(Coef0, s), Coef1), s), Coef2), s), a), a)

OctantUnfold_dropped(abs_y, abs_x, r0) == r0

\* if |y| > |x| then r := 1.57079637 - r
OctantUnfold(abs_y, abs_x, r0) ==
    IF FGt(abs_y, abs_x) THEN FSub(HalfPi, r0) ELSE r0

QuadrantCorrect_le(xx, r1) ==
    IF FLe(xx, FZero) THEN FSub(Pi, r1) ELSE r1

QuadrantCorrect_reversed(xx, r1) ==
    IF FLt(xx, FZero) THEN FSub(r1, Pi) ELSE r1

\* if x < 0 then r := 3.14159274 - r
QuadrantCorrect(xx, r1) ==
    IF FLt(xx, FZero) THEN FSub(Pi, r1) ELSE r1

\* if y < 0 then r := -r
SignCorrect(yy, r2) ==
    IF FLt(yy, FZero) THEN FNeg(r2) ELSE r2

fast_atan2(yy, xx) ==
    LET abs_y == FAbs(yy)
        abs_x == FAbs(xx)
        a     == FoldedRatio(abs_y, abs_x)
        r0    == AtanPoly(a)
        r1    == OctantUnfold(abs_y, abs_x, r0)
        r2    == QuadrantCorrect(xx, r1)
    IN  SignCorrect(yy, r2)

\* Arguments: every pair of FSpecial, and the unit-circle samples
\* <<theta, sin theta, cos theta>> for theta = k * pi / 64, k = -63..64, each
\* the binary32 value nearest to the real one.
FMinSubnormal == <<1, -149>>

FLT_MAX == <<16777215, 104>>

FPositive == { FMinSubnormal, FLT_MIN, <<8388608, -53>>, <<8388608, -24>>,
               <<8388608, -23>>, <<12582912, -23>>, <<12582912, -22>>, FLT_MAX }

FSpecial == {FZero} \cup FPositive \cup { FNeg(f) : f \in FPositive }

UnitCircle == {
    <<<<-12970907, -22>>, <<-13171504, -28>>, <<-16757007, -24>>>>, <<<<-12765020, -22>>, <<-13155638, -27>>, <<-16696429, -24>>>>,
    <<<<-12559132, -22>>, <<-9846915, -26>>, <<-16595628, -24>>>>, <<<<-12353245, -22>>, <<-13092290, -26>>, <<-16454846, -24>>>>,
    <<<<-12147358, -22>>, <<-16306124, -26>>, <<-16274424, -24>>>>, <<<<-11941470, -22>>, <<-9740337, -25>>, <<-16054795, -24>>>>,
    <<<<-11735583, -22>>, <<-11304148, -25>>, <<-15796488, -24>>>>, <<<<-11529695, -22>>, <<-12840725, -25>>, <<-15500126, -24>>>>,
    <<<<-11323808, -22>>, <<-14346368, -25>>, <<-15166424, -24>>>>, <<<<-11117920, -22>>, <<-15817450, -25>>, <<-14796184, -24>>>>,
    <<<<-10912033, -22>>, <<-8625213, -24>>, <<-14390298, -24>>>>, <<<<-10706146, -22>>, <<-9320922, -24>>, <<-13949745, -24>>>>,
    <<<<-10500258, -22>>, <<-9994176, -24>>, <<-13475586, -24>>>>, <<<<-10294371, -22>>, <<-10643353, -24>>, <<-12968963, -24>>>>,
    <<<<-10088483, -22>>, <<-11266890, -24>>, <<-12431097, -24>>>>, <<<<-9882596, -22>>, <<-11863283, -24>>, <<-11863283, -24>>>>,
    <<<<-9676709, -22>>, <<-12431097, -24>>, <<-11266890, -24>>>>, <<<<-9470821, -22>>, <<-12968963, -24>>, <<-10643353, -24>>>>,
    <<<<-9264934, -22>>, <<-13475586, -24>>, <<-9994176, -24>>>>, <<<<-9059046, -22>>, <<-13949745, -24>>, <<-9320922, -24>>>>,
    <<<<-8853159, -22>>, <<-14390298, -24>>, <<-8625213, -24>>>>, <<<<-8647271, -22>>, <<-14796184, -24>>, <<-15817450, -25>>>>,
    <<<<-8441384, -22>>, <<-15166424, -24>>, <<-14346368, -25>>>>, <<<<-16470993, -23>>, <<-15500126, -24>>, <<-12840725, -25>>>>,
    <<<<-16059218, -23>>, <<-15796488, -24>>, <<-11304148, -25>>>>, <<<<-15647444, -23>>, <<-16054795, -24>>, <<-9740337, -25>>>>,
    <<<<-15235669, -23>>, <<-16274424, -24>>, <<-16306124, -26>>>>, <<<<-14823894, -23>>, <<-16454846, -24>>, <<-13092290, -26>>>>,
    <<<<-14412119, -23>>, <<-16595628, -24>>, <<-9846915, -26>>>>, <<<<-14000344, -23>>, <<-16696429, -24>>, <<-13155638, -27>>>>,
    <<<<-13588569, -23>>, <<-16757007, -24>>, <<-13171504, -28>>>>, <<<<-13176795, -23>>, <<-8388608, -23>>, <<0, -149>>>>,
    <<<<-12765020, -23>>, <<-16757007, -24>>, <<13171504, -28>>>>, <<<<-12353245, -23>>, <<-16696429, -24>>, <<13155638, -27>>>>,
    <<<<-11941470, -23>>, <<-16595628, -24>>, <<9846915, -26>>>>, <<<<-11529695, -23>>, <<-16454846, -24>>, <<13092290, -26>>>>,
    <<<<-11117920, -23>>, <<-16274424, -24>>, <<16306124, -26>>>>, <<<<-10706146, -23>>, <<-16054795, -24>>, <<9740337, -25>>>>,
    <<<<-10294371, -23>>, <<-15796488, -24>>, <<11304148, -25>>>>, <<<<-9882596, -23>>, <<-15500126, -24>>, <<12840725, -25>>>>,
    <<<<-9470821, -23>>, <<-15166424, -24>>, <<14346368, -25>>>>, <<<<-9059046, -23>>, <<-14796184, -24>>, <<15817450, -25>>>>,
    <<<<-8647271, -23>>, <<-14390298, -24>>, <<8625213, -24>>>>, <<<<-16470993, -24>>, <<-13949745, -24>>, <<9320922, -24>>>>,
    <<<<-15647444, -24>>, <<-13475586, -24>>, <<9994176, -24>>>>, <<<<-14823894, -24>>, <<-12968963, -24>>, <<10643353, -24>>>>,
    <<<<-14000344, -24>>, <<-12431097, -24>>, <<11266890, -24>>>>, <<<<-13176795, -24>>, <<-11863283, -24>>, <<11863283, -24>>>>,
    <<<<-12353245, -24>>, <<-11266890, -24>>, <<12431097, -24>>>>, <<<<-11529695, -24>>, <<-10643353, -24>>, <<12968963, -24>>>>,
    <<<<-10706146, -24>>, <<-9994176, -24>>, <<13475586, -24>>>>, <<<<-9882596, -24>>, <<-9320922, -24>>, <<13949745, -24>>>>,
    <<<<-9059046, -24>>, <<-8625213, -24>>, <<14390298, -24>>>>, <<<<-16470993, -25>>, <<-15817450, -25>>, <<14796184, -24>>>>,
    <<<<-14823894, -25>>, <<-14346368, -25>>, <<15166424, -24>>>>, <<<<-13176795, -25>>, <<-12840725, -25>>, <<15500126, -24>>>>,
    <<<<-11529695, -25>>, <<-11304148, -25>>, <<15796488, -24>>>>, <<<<-9882596, -25>>, <<-9740337, -25>>, <<16054795, -24>>>>,
    <<<<-16470993, -26>>, <<-16306124, -26>>, <<16274424, -24>>>>, <<<<-13176795, -26>>, <<-13092290, -26>>, <<16454846, -24>>>>,
    <<<<-9882596, -26>>, <<-9846915, -26>>, <<16595628, -24>>>>, <<<<-13176795, -27>>, <<-13155638, -27>>, <<16696429, -24>>>>,
    <<<<-13176795, -28>>, <<-13171504, -28>>, <<16757007, -24>>>>, <<<<0, -149>>, <<0, -149>>, <<8388608, -23>>>>,
    <<<<13176795, -28>>, <<13171504, -28>>, <<16757007, -24>>>>, <<<<13176795, -27>>, <<13155638, -27>>, <<16696429, -24>>>>,
    <<<<9882596, -26>>, <<9846915, -26>>, <<16595628, -24>>>>, <<<<13176795, -26>>, <<13092290, -26>>, <<16454846, -24>>>>,
    <<<<16470993, -26>>, <<16306124, -26>>, <<16274424, -24>>>>, <<<<9882596, -25>>, <<9740337, -25>>, <<16054795, -24>>>>,
    <<<<11529695, -25>>, <<11304148, -25>>, <<15796488, -24>>>>, <<<<13176795, -25>>, <<12840725, -25>>, <<15500126, -24>>>>,
    <<<<14823894, -25>>, <<14346368, -25>>, <<15166424, -24>>>>, <<<<16470993, -25>>, <<15817450, -25>>, <<14796184, -24>>>>,
    <<<<9059046, -24>>, <<8625213, -24>>, <<14390298, -24>>>>, <<<<9882596, -24>>, <<9320922, -24>>, <<13949745, -24>>>>,
    <<<<10706146, -24>>, <<9994176, -24>>, <<13475586, -24>>>>, <<<<11529695, -24>>, <<10643353, -24>>, <<12968963, -24>>>>,
    <<<<12353245, -24>>, <<11266890, -24>>, <<12431097, -24>>>>, <<<<13176795, -24>>, <<11863283, -24>>, <<11863283, -24>>>>,
    <<<<14000344, -24>>, <<12431097, -24>>, <<11266890, -24>>>>, <<<<14823894, -24>>, <<12968963, -24>>, <<10643353, -24>>>>,
    <<<<15647444, -24>>, <<13475586, -24>>, <<9994176, -24>>>>, <<<<16470993, -24>>, <<13949745, -24>>, <<9320922, -24>>>>,
    <<<<8647271, -23>>, <<14390298, -24>>, <<8625213, -24>>>>, <<<<9059046, -23>>, <<14796184, -24>>, <<15817450, -25>>>>,
    <<<<9470821, -23>>, <<15166424, -24>>, <<14346368, -25>>>>, <<<<9882596, -23>>, <<15500126, -24>>, <<12840725, -25>>>>,
    <<<<10294371, -23>>, <<15796488, -24>>, <<11304148, -25>>>>, <<<<10706146, -23>>, <<16054795, -24>>, <<9740337, -25>>>>,
    <<<<11117920, -23>>, <<16274424, -24>>, <<16306124, -26>>>>, <<<<11529695, -23>>, <<16454846, -24>>, <<13092290, -26>>>>,
    <<<<11941470, -23>>, <<16595628, -24>>, <<9846915, -26>>>>, <<<<12353245, -23>>, <<16696429, -24>>, <<13155638, -27>>>>,
    <<<<12765020, -23>>, <<16757007, -24>>, <<13171504, -28>>>>, <<<<13176795, -23>>, <<8388608, -23>>, <<0, -149>>>>,
    <<<<13588569, -23>>, <<16757007, -24>>, <<-13171504, -28>>>>, <<<<14000344, -23>>, <<16696429, -24>>, <<-13155638, -27>>>>,
    <<<<14412119, -23>>, <<16595628, -24>>, <<-9846915, -26>>>>, <<<<14823894, -23>>, <<16454846, -24>>, <<-13092290, -26>>>>,
    <<<<15235669, -23>>, <<16274424, -24>>, <<-16306124, -26>>>>, <<<<15647444, -23>>, <<16054795, -24>>, <<-9740337, -25>>>>,
    <<<<16059218, -23>>, <<15796488, -24>>, <<-11304148, -25>>>>, <<<<16470993, -23>>, <<15500126, -24>>, <<-12840725, -25>>>>,
    <<<<8441384, -22>>, <<15166424, -24>>, <<-14346368, -25>>>>, <<<<8647271, -22>>, <<14796184, -24>>, <<-15817450, -25>>>>,
    <<<<8853159, -22>>, <<14390298, -24>>, <<-8625213, -24>>>>, <<<<9059046, -22>>, <<13949745, -24>>, <<-9320922, -24>>>>,
    <<<<9264934, -22>>, <<13475586, -24>>, <<-9994176, -24>>>>, <<<<9470821, -22>>, <<12968963, -24>>, <<-10643353, -24>>>>,
    <<<<9676709, -22>>, <<12431097, -24>>, <<-11266890, -24>>>>, <<<<9882596, -22>>, <<11863283, -24>>, <<-11863283, -24>>>>,
    <<<<10088483, -22>>, <<11266890, -24>>, <<-12431097, -24>>>>, <<<<10294371, -22>>, <<10643353, -24>>, <<-12968963, -24>>>>,
    <<<<10500258, -22>>, <<9994176, -24>>, <<-13475586, -24>>>>, <<<<10706146, -22>>, <<9320922, -24>>, <<-13949745, -24>>>>,
    <<<<10912033, -22>>, <<8625213, -24>>, <<-14390298, -24>>>>, <<<<11117920, -22>>, <<15817450, -25>>, <<-14796184, -24>>>>,
    <<<<11323808, -22>>, <<14346368, -25>>, <<-15166424, -24>>>>, <<<<11529695, -22>>, <<12840725, -25>>, <<-15500126, -24>>>>,
    <<<<11735583, -22>>, <<11304148, -25>>, <<-15796488, -24>>>>, <<<<11941470, -22>>, <<9740337, -25>>, <<-16054795, -24>>>>,
    <<<<12147358, -22>>, <<16306124, -26>>, <<-16274424, -24>>>>, <<<<12353245, -22>>, <<13092290, -26>>, <<-16454846, -24>>>>,
    <<<<12559132, -22>>, <<9846915, -26>>, <<-16595628, -24>>>>, <<<<12765020, -22>>, <<13155638, -27>>, <<-16696429, -24>>>>,
    <<<<12970907, -22>>, <<13171504, -28>>, <<-16757007, -24>>>>, <<<<13176795, -22>>, <<0, -149>>, <<-8388608, -23>>>> }

AtanInputs == (FSpecial \X FSpecial) \cup { <<c[2], c[3]>> : c \in UnitCircle }

InitAtan2 ==
    /\ pc = "fast_atan2"
    /\ \E arg \in AtanInputs : y = arg[1] /\ x = arg[2]
    /\ r = Unset
    /\ alpha = Unset /\ beta = Unset /\ Sextant = 0 /\ t_x = Unset /\ t_y = Unset
    /\ tA = Unset /\ tB = Unset /\ tC = Unset /\ result_valid = FALSE
    /\ deadline_ms = Unset /\ now_ms = Unset /\ timeout_ms = Unset
    /\ MicrosIdle

FastAtan2 ==
    /\ pc = "fast_atan2"
    /\ r' = fast_atan2(y, x)
    /\ pc' = "fast_atan2_done"
    /\ UNCHANGED <<y, x, svmVars, deadlineVars, hwVars, microsVars>>

---------------------------------------------------------------------------
(***************************************************************************)
(* deadline_to_timeout.  A uint32_t is <<hi, lo>>, the value               *)
(* hi * 2^16 + lo with both halves in 0..65535.                            *)
(***************************************************************************)

Half16 == 65536

U32Add(a, b) ==
    LET lo == a[2] + b[2]
    IN  <<(a[1] + b[1] + lo \div Half16) % Half16, lo % Half16>>

U32Sub(a, b) ==
    LET lo == a[2] - b[2]
        bw == IF lo < 0 THEN 1 ELSE 0
    IN  <<(a[1] - b[1] - bw + Half16) % Half16, (lo + Half16) % Half16>>

\* x & 0x80000000 is nonzero.
U32HighBit(a) == a[1] >= 32768

U32Zero == <<0, 0>>

\* The deadline compared with the clock as plain unsigned numbers.
DeadlineToTimeout_compare(deadline, now) ==
    IF deadline[1] < now[1] \/ (deadline[1] = now[1] /\ deadline[2] < now[2])
    THEN U32Zero
    ELSE U32Sub(deadline, now)

\* The body of deadline_to_timeout once now_ms has been read.
DeadlineToTimeout(deadline, now) ==
    LET timeout == U32Sub(deadline, now)
    IN  IF U32HighBit(timeout) THEN U32Zero ELSE timeout

\* Values of the millisecond clock, and distances from it to the deadline.
NowValues == { <<0, 0>>, <<0, 1>>, <<0, 100>>, <<1, 0>>, <<32767, 65535>>, <<32768, 0>>,
               <<65535, 65436>>, <<65535, 65486>>, <<65535, 65535>>, <<4660, 22136>> }

Distances == { <<0, 0>>, <<0, 1>>, <<0, 99>>, <<0, 100>>, <<0, 101>>, <<32767, 65535>>,
               <<32768, 0>>, <<32768, 1>>, <<65535, 65436>>, <<65535, 65535>> }

InitDeadline ==
    /\ pc = "deadline_to_timeout"
    /\ now_ms \in NowValues
    /\ \E d \in Distances : deadline_ms = U32Add(now_ms, d)
    /\ timeout_ms = Unset
    /\ alpha = Unset /\ beta = Unset /\ Sextant = 0 /\ t_x = Unset /\ t_y = Unset
    /\ tA = Unset /\ tB = Unset /\ tC = Unset /\ result_valid = FALSE
    /\ y = Unset /\ x = Unset /\ r = Unset
    /\ MicrosIdle

deadline_to_timeout ==
    /\ pc = "deadline_to_timeout"
    /\ timeout_ms' = DeadlineToTimeout(deadline_ms, now_ms)
    /\ pc' = "deadline_to_timeout_done"
    /\ UNCHANGED <<deadline_ms, now_ms, svmVars, atanVars, hwVars, microsVars>>

---------------------------------------------------------------------------
(***************************************************************************)
(* micros.  The time base is a counter CNT that counts 0 .. Period - 1 and *)
(* a millisecond tick uwTick (what HAL_GetTick returns) that increments at *)
(* the instant CNT wraps to 0.  uwTick is kept modulo TickMod.             *)
(* Timing: between two consecutive reads of micros at most MaxElapse       *)
(* counts go by, and three such gaps (one loop iteration and the way to    *)
(* the next) are shorter than one tick period.                             *)
(* tick_at_cnt records the tick at the instant CNT was read and retried    *)
(* whether the loop has repeated.                                          *)
(***************************************************************************)

Period == 10

TickMod == 4

MaxElapse == (Period - 1) \div 3

InitMicros ==
    /\ pc = "micros_ms"
    /\ uwTick \in 0..(TickMod - 1)
    /\ CNT \in 0..(Period - 1)
    /\ ms = Unread /\ cycle_cnt = Unread /\ micros_ret = Unread
    /\ tick_at_cnt = Unread
    /\ retried = FALSE
    /\ elapse = MaxElapse
    /\ alpha = Unset /\ beta = Unset /\ Sextant = 0 /\ t_x = Unset /\ t_y = Unset
    /\ tA = Unset /\ tB = Unset /\ tC = Unset /\ result_valid = FALSE
    /\ y = Unset /\ x = Unset /\ r = Unset
    /\ deadline_ms = Unset /\ now_ms = Unset /\ timeout_ms = Unset

MicrosRunning == pc \in {"micros_ms", "micros_cnt", "micros_check"}

\* The time base counts once; the tick increments when CNT wraps to 0.
TimerCount ==
    /\ MicrosRunning
    /\ elapse > 0
    /\ elapse' = elapse - 1
    /\ CNT' = (CNT + 1) % Period
    /\ uwTick' = IF CNT + 1 = Period THEN (uwTick + 1) % TickMod ELSE uwTick
    /\ UNCHANGED <<pc, ms, cycle_cnt, micros_ret, tick_at_cnt, retried, svmVars, atanVars, deadlineVars>>

\* ms = HAL_GetTick();
ReadTick ==
    /\ pc = "micros_ms"
    /\ ms' = uwTick
    /\ pc' = "micros_cnt"
    /\ elapse' = MaxElapse
    /\ UNCHANGED <<cycle_cnt, micros_ret, tick_at_cnt, retried, hwVars, svmVars, atanVars, deadlineVars>>

\* cycle_cnt = TIM_TIME_BASE->CNT;
ReadCnt ==
    /\ pc = "micros_cnt"
    /\ cycle_cnt' = CNT
    /\ tick_at_cnt' = uwTick
    /\ pc' = "micros_check"
    /\ elapse' = MaxElapse
    /\ UNCHANGED <<ms, micros_ret, retried, hwVars, svmVars, atanVars, deadlineVars>>

TickChanged_never(first, second) == FALSE

\* ms != HAL_GetTick()
TickChanged(first, second) == first # second

\* The loop condition holds: read both again.
MicrosRetry ==
    /\ pc = "micros_check"
    /\ TickChanged(ms, uwTick)
    /\ pc' = "micros_ms"
    /\ retried' = TRUE
    /\ elapse' = MaxElapse
    /\ UNCHANGED <<ms, cycle_cnt, micros_ret, tick_at_cnt, hwVars, svmVars, atanVars, deadlineVars>>

\* The loop ends: return (ms * 1000) + cycle_cnt.
MicrosReturn ==
    /\ pc = "micros_check"
    /\ ~TickChanged(ms, uwTick)
    /\ micros_ret' = (ms * 1000) + cycle_cnt
    /\ pc' = "micros_done"
    /\ elapse' = 0
    /\ UNCHANGED <<ms, cycle_cnt, tick_at_cnt, retried, hwVars, svmVars, atanVars, deadlineVars>>

micros == ReadTick \/ ReadCnt \/ MicrosRetry \/ MicrosReturn

NextMicros == TimerCount \/ ReadTick \/ ReadCnt \/ MicrosRetry \/ MicrosReturn

\* micros keeps executing; nothing is assumed of the time base beyond the
\* bound on the counts between two reads.
SpecMicros == InitMicros /\ [][NextMicros]_vars /\ WF_vars(micros)

---------------------------------------------------------------------------
(***************************************************************************)
(* Properties of fast_atan2                                                *)
(***************************************************************************)

AtanDone == pc = "fast_atan2_done"

\* C7: fast_atan2(0, 0) returns exactly 0: with the epsilon in the
\* denominator the division is defined, no correction branch is taken, and
\* the result is the finite angle 0.
C7_OriginGivesZero ==
    (AtanDone /\ y = FZero /\ x = FZero) => r = FZero

C7_Witness ==
    /\ AtanDone
    /\ y = FZero
    /\ x = FZero
    /\ r = FZero

\* The quadrant convention of the two-argument arctangent: r >= 0 when
\* y >= 0 and r <= 0 when y < 0; |r| <= pi/2 when x >= 0 and |r| >= pi/2
\* when x < 0.
QuadrantConvention ==
    /\ FGe(y, FZero) => FGe(r, FZero)
    /\ FLt(y, FZero) => FLe(r, FZero)
    /\ FGe(x, FZero) => FLe(FAbs(r), HalfPi)
    /\ FLt(x, FZero) => FGe(FAbs(r), HalfPi)

\* C8 as stated: for every finite (y, x) the result lies in (-pi, pi] and
\* follows the quadrant convention.
C8_RangeHalfOpen ==
    AtanDone =>
        /\ FLt(FNeg(Pi), r)
        /\ FLe(r, Pi)
        /\ QuadrantConvention

\* C8 amended: for every finite (y, x) the result lies in [-pi, pi], both
\* ends included (pi being the constant 3.14159274f of the code), and
\* follows the quadrant convention.
C8_RangeClosed ==
    AtanDone =>
        /\ FLe(FNeg(Pi), r)
        /\ FLe(r, Pi)
        /\ QuadrantConvention

\* A third-quadrant argument whose angle rounds to -pi.
C8_Witness ==
    /\ AtanDone
    /\ FLt(y, FZero)
    /\ FLt(x, FZero)
    /\ r = FNeg(Pi)

\* 0.005f = 10737418 * 2^-31.
Tolerance == <<10737418, -31>>

\* C9: for every sampled angle theta in (-pi, pi] at unit radius,
\* fast_atan2(sin theta, cos theta) is within 0.005 radians of theta, in all
\* four quadrants and on the axes.
C9_UnitCircleAccuracy ==
    AtanDone =>
        \A c \in UnitCircle :
            (y = c[2] /\ x = c[3]) => FLe(FAbs(FSub(r, c[1])), Tolerance)

\* theta = -3*pi/4, in the third quadrant, where |y| = |x| and the
\* polynomial is evaluated at the end of its interval.
C9_Witness ==
    /\ AtanDone
    /\ \E c \in UnitCircle : y = c[2] /\ x = c[3]
    /\ FLt(y, FZero)
    /\ FLt(x, FZero)
    /\ y = x
    /\ r # Unset

---------------------------------------------------------------------------
(***************************************************************************)
(* Properties of deadline_to_timeout                                       *)
(***************************************************************************)

DeadlineDone == pc = "deadline_to_timeout_done"

U32Hundred == <<0, 100>>

\* C10: with the clock fixed at now, deadline_to_timeout(deadline) is
\* (deadline - now) mod 2^32 when that difference has its high bit clear and
\* 0 when it is set; deadline_to_timeout(now) = 0 and
\* deadline_to_timeout(now + 100) = 100, also when now + 100 wraps.
C10_DeadlineToTimeout ==
    DeadlineDone =>
        LET diff == U32Sub(deadline_ms, now_ms)
        IN  /\ U32Add(now_ms, diff) = deadline_ms
            /\ diff[1] < 32768 => timeout_ms = diff
            /\ diff[1] >= 32768 => timeout_ms = U32Zero
            /\ deadline_ms = now_ms => timeout_ms = U32Zero
            /\ deadline_ms = U32Add(now_ms, U32Hundred) => timeout_ms = U32Hundred

\* now + 100 wrapped past 2^32 and the timeout is still 100.
C10_Witness ==
    /\ DeadlineDone
    /\ now_ms = <<65535, 65486>>
    /\ deadline_ms = <<0, 50>>
    /\ timeout_ms = U32Hundred

---------------------------------------------------------------------------
(***************************************************************************)
(* Properties of micros                                                    *)
(***************************************************************************)

MicrosDone == pc = "micros_done"

\* The millisecond value and the cycle count of the result were both current
\* at the instant CNT was read.
NoTornRead ==
    /\ ms = tick_at_cnt
    /\ micros_ret = (tick_at_cnt * 1000) + cycle_cnt

---------------------------------------------------------------------------
Init == InitSVM \/ InitAtan2 \/ InitDeadline

Next == SVM \/ FastAtan2 \/ deadline_to_timeout

Spec == Init /\ [][Next]_vars

=============================================================================
